---- MODULE Spec2Model ----
(***************************************************************************)
(* Model of tools/classify.py: one run of the classifier script.           *)
(*                                                                         *)
(* The run is a straight line of steps (main, PreprocessImage,             *)
(* LoadLabelMaps, the report loop).  pc is the position in that line.      *)
(* Text is modelled as a sequence of one-character strings, so that        *)
(* readlines, rstrip, split and strip are computed as Python computes      *)
(* them.  Scores are held in thirds of a hundredth, so that the two-       *)
(* decimal formatting of the report is a real rounding.                    *)
(*                                                                         *)
(* Library behaviour the model relies on:                                  *)
(*  - tf.logging.fatal is the 'tensorflow' Python logger's fatal(): it     *)
(*    writes the message and returns (which is why LoadLabelMaps follows   *)
(*    it with sys.exit(1)).                                                *)
(*  - opening a missing file raises; restoring a missing or damaged        *)
(*    checkpoint raises; decoding a damaged image raises at sess.run.      *)
(*  - an uncaught exception and sys.exit(1) both end the process with      *)
(*    status 1; returning from main ends it with status 0.                 *)
(*  - ndarray.argsort() returns some permutation of the indices that puts  *)
(*    the scores in ascending order (the default sort is not stable).      *)
(* num_classes is at least 2 in the model: the network's output is then a  *)
(* vector after np.squeeze.                                                *)
(*                                                                         *)
(* Two specifications run the same program in two environments:            *)
(*   Spec        the lookup tables vary (label-map and dictionary files    *)
(*               of every shape), the score vector is short;               *)
(*   SpecReport  the score vector and the top-N count vary, the lookup     *)
(*               tables are plain.                                         *)
(***************************************************************************)
EXTENDS Integers, Sequences, FiniteSets, TLC

\* ------------------------------------------------------------------ bounds
MaxLines == 2        \* Spec: classes, and lines of the label map
MaxDictLines == 2    \* Spec: lines of the dictionary
MaxClasses == 3      \* SpecReport: classes
MaxScore == 2        \* SpecReport: the largest score, in thirds of a hundredth

\* ------------------------------------------------------------- characters
NL == "\n"
SP == " "
DQ == "\""
CM == ","

Whitespace == {SP, NL, "\t"}
DictStripChars == {SP, DQ, NL}
Unknown == <<"u", "n", "k", "n", "o", "w", "n">>

\* ------------------------------------------------------- string functions
FirstIndex(s, ch) ==
  IF \E k \in 1..Len(s) : s[k] = ch
  THEN CHOOSE k \in 1..Len(s) : s[k] = ch /\ \A j \in 1..(k - 1) : s[j] # ch
  ELSE 0

RECURSIVE ReadLines(_)
ReadLines(content) ==
  IF content = <<>> THEN <<>>
  ELSE LET k == FirstIndex(content, NL) IN
       IF k = 0 THEN <<content>>
       ELSE <<SubSeq(content, 1, k)>> \o ReadLines(SubSeq(content, k + 1, Len(content)))

RECURSIVE RStripChars(_, _)
RStripChars(s, cs) ==
  IF s = <<>> \/ s[Len(s)] \notin cs THEN s
  ELSE RStripChars(SubSeq(s, 1, Len(s) - 1), cs)

RECURSIVE LStripChars(_, _)
LStripChars(s, cs) ==
  IF s = <<>> \/ s[1] \notin cs THEN s
  ELSE LStripChars(Tail(s), cs)

RStrip(s) == RStripChars(s, Whitespace)

Strip(s, cs) == LStripChars(RStripChars(s, cs), cs)

\* Variant: the split is made at the last separator.
SplitAtLast(s, sep) ==
  IF \E k \in 1..Len(s) : s[k] = sep
  THEN LET k == CHOOSE k \in 1..Len(s) : s[k] = sep /\ \A j \in (k + 1)..Len(s) : s[j] # sep
       IN <<SubSeq(s, 1, k - 1), SubSeq(s, k + 1, Len(s))>>
  ELSE <<s>>

\* line.split(sep, 1)
SplitOnce(s, sep) ==
  LET k == FirstIndex(s, sep) IN
  IF k = 0 THEN <<s>>
  ELSE <<SubSeq(s, 1, k - 1), SubSeq(s, k + 1, Len(s))>>

RECURSIVE Flatten(_)
Flatten(ss) == IF ss = <<>> THEN <<>> ELSE Head(ss) \o Flatten(Tail(ss))

SeqsUpTo(S, m) == UNION { [1..k -> S] : k \in 0..m }

\* ------------------------------------------------------------- the inputs
LabelLines ==
  { <<"a", NL>>, <<"b", SP, NL>> }

\* A last line that has no newline after it.
LabelLastLines ==
  { <<>>, <<"c">> }

DictLines ==
  { <<"a", CM, "x", NL>>,
    <<SP, DQ, "a", DQ, CM, DQ, "x", CM, "y", DQ, NL>>,
    <<"c", NL>> }

\* The environment of Spec.
LabelFiles ==
  { Flatten(ls) \o last : ls \in SeqsUpTo(LabelLines, MaxLines), last \in LabelLastLines }
DictFiles == { Flatten(ls) : ls \in SeqsUpTo(DictLines, MaxDictLines) }
ClassCounts == 2..MaxLines
TopCounts == (0 - 1)..(MaxLines + 1)
Scores == {0, 2}

\* The environment of SpecReport.
ReportLabelFiles == { Flatten([k \in 1..m |-> <<"a", NL>>]) : m \in 2..MaxClasses }
ReportDictFiles == { <<>>, <<"a", CM, "x", NL>> }
ReportClassCounts == 2..MaxClasses
ReportTopCounts == (0 - 1)..(MaxClasses + 1)
ReportScores == 0..MaxScore

VARIABLES pc, num_classes, n, ckptExists, imageExists, steps, log,
          exception, exitStatus, predictions_eval, labelmapFile, dictFile,
          labelmap, label_dict, top_k, pos, printed

vars == <<pc, num_classes, n, ckptExists, imageExists, steps, log,
          exception, exitStatus, predictions_eval, labelmapFile, dictFile,
          labelmap, label_dict, top_k, pos, printed>>

NoFile == <<"?">>
EmptyDict == [k \in {} |-> <<>>]

\* The state when main is entered: the flags are parsed.
Start(classCounts, topCounts) ==
  /\ pc = "main"
  /\ num_classes \in classCounts
  /\ n \in topCounts
  /\ ckptExists \in BOOLEAN
  /\ imageExists \in BOOLEAN
  /\ steps = <<>>
  /\ log = <<>>
  /\ exception = "none"
  /\ exitStatus = <<>>
  /\ predictions_eval = <<>>
  /\ labelmapFile = NoFile
  /\ dictFile = NoFile
  /\ labelmap = <<>>
  /\ label_dict = EmptyDict
  /\ top_k = <<>>
  /\ pos = 0
  /\ printed = <<>>

\* ------------------------------------------------------- report functions
\* '{:.2f}'.format(score): the score rounded to hundredths.
FormatScore(score) == (score + 1) \div 3

Perms(m) == { p \in [1..m -> 0..(m - 1)] : \A i, j \in 1..m : i # j => p[i] # p[j] }

\* predictions_eval.argsort(): indices (from 0) in ascending score order.
ArgSort(s) ==
  CHOOSE p \in Perms(Len(s)) :
    \A k \in 1..(Len(s) - 1) : s[p[k] + 1] <= s[p[k + 1] + 1]

\* seq[-k:]
SliceLast(seq, k) ==
  LET len == Len(seq)
      start == IF 0 - k < 0
               THEN (IF len - k > 0 THEN len - k ELSE 0)
               ELSE (IF 0 - k < len THEN 0 - k ELSE len)
  IN SubSeq(seq, start + 1, len)

\* seq[::-1]
Reverse(seq) == [k \in 1..Len(seq) |-> seq[Len(seq) + 1 - k]]

\* Variant: the selection is not reversed.
TopKAscending(scores, k) == SliceLast(ArgSort(scores), k)

TopK(scores, k) == Reverse(SliceLast(ArgSort(scores), k))

\* Variant: label_dict[mid], which raises for an absent mid.
DictGetStrict(d, mid) ==
  IF mid \in DOMAIN d THEN [ok |-> TRUE, value |-> d[mid]]
  ELSE [ok |-> FALSE, value |-> <<>>]

\* label_dict.get(mid, 'unknown')
DictGet(d, mid) ==
  IF mid \in DOMAIN d THEN [ok |-> TRUE, value |-> d[mid]]
  ELSE [ok |-> TRUE, value |-> Unknown]

\* Variant: the label map is indexed from its end.
ReportLineFromEnd(idx, lm, ld, scores) ==
  IF idx + 1 \notin 1..Len(lm)
  THEN [ok |-> FALSE, error |-> "IndexError"]
  ELSE LET mid == lm[Len(lm) - idx]
       IN [ok |-> TRUE,
           line |-> [idx |-> idx, mid |-> mid,
                     display_name |-> DictGet(ld, mid).value,
                     score |-> FormatScore(scores[idx + 1])]]

\* The body of the report loop for one index: the line it prints, or the
\* exception it raises.
ReportLine(idx, lm, ld, scores) ==
  IF idx + 1 \notin 1..Len(lm)
  THEN [ok |-> FALSE, error |-> "IndexError"]
  ELSE LET mid == lm[idx + 1]
           got == DictGet(ld, mid)
       IN IF ~got.ok
          THEN [ok |-> FALSE, error |-> "KeyError"]
          ELSE [ok |-> TRUE,
                line |-> [idx |-> idx, mid |-> mid, display_name |-> got.value,
                          score |-> FormatScore(scores[idx + 1])]]

\* ---------------------------------------------------- LoadLabelMaps parts
ParseLabelmap(content) ==
  LET lines == ReadLines(content) IN [k \in 1..Len(lines) |-> RStrip(lines[k])]

DictWords(line) ==
  LET parts == SplitOnce(line, CM) IN
  [j \in 1..Len(parts) |-> Strip(parts[j], DictStripChars)]

DictPut(d, key, value) ==
  [k \in (DOMAIN d) \cup {key} |-> IF k = key THEN value ELSE d[k]]

RECURSIVE AddDictLines(_, _)
AddDictLines(lines, d) ==
  IF lines = <<>> THEN [ok |-> TRUE, dict |-> d]
  ELSE LET words == DictWords(Head(lines)) IN
       IF Len(words) < 2 THEN [ok |-> FALSE, dict |-> d]
       ELSE AddDictLines(Tail(lines), DictPut(d, words[1], words[2]))

ParseDict(content) == AddDictLines(ReadLines(content), EmptyDict)

\* ---------------------------------------------------------------- actions
Raise(e) ==
  /\ pc' = "crashed"
  /\ exception' = e
  /\ exitStatus' = <<1>>

\* main: the checkpoint existence check.
CheckCheckpoint ==
  /\ pc = "main"
  /\ steps' = Append(steps, "check_checkpoint")
  /\ log' = IF ckptExists THEN log ELSE Append(log, "checkpoint_missing")
  /\ pc' = "graph"
  /\ UNCHANGED <<num_classes, n, ckptExists, imageExists, exception, exitStatus,
                 predictions_eval, labelmapFile, dictFile, labelmap, label_dict,
                 top_k, pos, printed>>

\* main: g = tf.Graph(); with g.as_default()
NewGraph ==
  /\ pc = "graph"
  /\ steps' = Append(steps, "new_graph")
  /\ pc' = "preprocess"
  /\ UNCHANGED <<num_classes, n, ckptExists, imageExists, log, exception,
                 exitStatus, predictions_eval, labelmapFile, dictFile, labelmap,
                 label_dict, top_k, pos, printed>>

\* PreprocessImage: the image existence check.
CheckImage ==
  /\ pc = "preprocess"
  /\ steps' = Append(steps, "check_image")
  /\ log' = IF imageExists THEN log ELSE Append(log, "image_missing")
  /\ pc' = "read_image"
  /\ UNCHANGED <<num_classes, n, ckptExists, imageExists, exception, exitStatus,
                 predictions_eval, labelmapFile, dictFile, labelmap, label_dict,
                 top_k, pos, printed>>

\* PreprocessImage: tf.gfile.FastGFile(image_path).read()
ReadImage ==
  /\ pc = "read_image"
  /\ steps' = Append(steps, "open_image")
  /\ IF imageExists
     THEN pc' = "build_preprocess" /\ UNCHANGED <<exception, exitStatus>>
     ELSE Raise("NotFoundError")
  /\ UNCHANGED <<num_classes, n, ckptExists, imageExists, log, predictions_eval,
                 labelmapFile, dictFile, labelmap, label_dict, top_k, pos, printed>>

\* PreprocessImage: the decode, crop_and_resize and normalisation ops.
BuildPreprocess ==
  /\ pc = "build_preprocess"
  /\ steps' = Append(steps, "build_preprocess")
  /\ pc' = "build_network"
  /\ UNCHANGED <<num_classes, n, ckptExists, imageExists, log, exception,
                 exitStatus, predictions_eval, labelmapFile, dictFile, labelmap,
                 label_dict, top_k, pos, printed>>

\* Variant: the lookup tables are loaded before the checkpoint is restored.
BuildNetworkThenTables ==
  /\ pc = "build_network"
  /\ steps' = Append(steps, "build_network")
  /\ pc' = "load_labelmap"
  /\ UNCHANGED <<num_classes, n, ckptExists, imageExists, log, exception,
                 exitStatus, predictions_eval, labelmapFile, dictFile, labelmap,
                 label_dict, top_k, pos, printed>>

\* main: the inception_v3 graph, the sigmoid, the init op and the Saver.
BuildNetwork ==
  /\ pc = "build_network"
  /\ steps' = Append(steps, "build_network")
  /\ pc' = "restore"
  /\ UNCHANGED <<num_classes, n, ckptExists, imageExists, log, exception,
                 exitStatus, predictions_eval, labelmapFile, dictFile, labelmap,
                 label_dict, top_k, pos, printed>>

\* main: sess = tf.Session(); saver.restore(sess, FLAGS.checkpoint)
Restore ==
  /\ pc = "restore"
  /\ steps' = Append(steps, "restore")
  /\ \E readable \in BOOLEAN :
       IF ckptExists /\ readable
       THEN pc' = "run" /\ UNCHANGED <<exception, exitStatus>>
       ELSE Raise("RestoreError")
  /\ UNCHANGED <<num_classes, n, ckptExists, imageExists, log, predictions_eval,
                 labelmapFile, dictFile, labelmap, label_dict, top_k, pos, printed>>

\* main: predictions_eval = np.squeeze(sess.run(predictions))
RunInference(scoreSet) ==
  /\ pc = "run"
  /\ steps' = Append(steps, "run")
  /\ \/ /\ \E scores \in [1..num_classes -> scoreSet] : predictions_eval' = scores
        /\ pc' = "load_labelmap"
        /\ UNCHANGED <<exception, exitStatus>>
     \/ /\ Raise("InvalidArgumentError")
        /\ UNCHANGED predictions_eval
  /\ UNCHANGED <<num_classes, n, ckptExists, imageExists, log, labelmapFile,
                 dictFile, labelmap, label_dict, top_k, pos, printed>>

\* Variant: the mismatch is logged and the load goes on.
LoadLabelmapNoExit(files) ==
  /\ pc = "load_labelmap"
  /\ steps' = Append(steps, "load_labelmap")
  /\ \E content \in files :
       /\ labelmapFile' = content
       /\ labelmap' = ParseLabelmap(content)
       /\ log' = IF Len(ParseLabelmap(content)) # num_classes
                 THEN Append(log, "labelmap_mismatch") ELSE log
       /\ pc' = "load_dict"
  /\ UNCHANGED <<num_classes, n, ckptExists, imageExists, exception, exitStatus,
                 predictions_eval, dictFile, label_dict, top_k, pos, printed>>

\* LoadLabelMaps: the label map and its line-count check.
LoadLabelmap(files) ==
  /\ pc = "load_labelmap"
  /\ steps' = Append(steps, "load_labelmap")
  /\ \E content \in files :
       /\ labelmapFile' = content
       /\ labelmap' = ParseLabelmap(content)
       /\ IF Len(ParseLabelmap(content)) # num_classes
          THEN /\ log' = Append(log, "labelmap_mismatch")
               /\ pc' = "exited"
               /\ exitStatus' = <<1>>
          ELSE /\ pc' = "load_dict"
               /\ UNCHANGED <<log, exitStatus>>
  /\ UNCHANGED <<num_classes, n, ckptExists, imageExists, exception,
                 predictions_eval, dictFile, label_dict, top_k, pos, printed>>

\* LoadLabelMaps: the dictionary loop and the return.
LoadDict(files) ==
  /\ pc = "load_dict"
  /\ steps' = Append(steps, "load_dict")
  /\ \E content \in files :
       /\ dictFile' = content
       /\ label_dict' = ParseDict(content).dict
       /\ IF ParseDict(content).ok
          THEN pc' = "top_k" /\ UNCHANGED <<exception, exitStatus>>
          ELSE Raise("IndexError")
  /\ UNCHANGED <<num_classes, n, ckptExists, imageExists, log, predictions_eval,
                 labelmapFile, labelmap, top_k, pos, printed>>

\* main: top_k = predictions_eval.argsort()[-FLAGS.n:][::-1]
SelectTopK ==
  /\ pc = "top_k"
  /\ steps' = Append(steps, "top_k")
  /\ top_k' = TopK(predictions_eval, n)
  /\ pos' = 1
  /\ pc' = "print"
  /\ UNCHANGED <<num_classes, n, ckptExists, imageExists, log, exception,
                 exitStatus, predictions_eval, labelmapFile, dictFile, labelmap,
                 label_dict, printed>>

\* main: one iteration of the report loop.
PrintLine ==
  /\ pc = "print"
  /\ pos <= Len(top_k)
  /\ LET r == ReportLine(top_k[pos], labelmap, label_dict, predictions_eval) IN
       IF r.ok
       THEN /\ printed' = Append(printed, r.line)
            /\ pos' = pos + 1
            /\ UNCHANGED <<pc, exception, exitStatus>>
       ELSE /\ Raise(r.error)
            /\ UNCHANGED <<printed, pos>>
  /\ UNCHANGED <<num_classes, n, ckptExists, imageExists, steps, log,
                 predictions_eval, labelmapFile, dictFile, labelmap, label_dict,
                 top_k>>

\* main returns; tf.app.run exits with status 0.
Return ==
  /\ pc = "print"
  /\ pos > Len(top_k)
  /\ pc' = "done"
  /\ exitStatus' = <<0>>
  /\ UNCHANGED <<num_classes, n, ckptExists, imageExists, steps, log, exception,
                 predictions_eval, labelmapFile, dictFile, labelmap, label_dict,
                 top_k, pos, printed>>

Init == Start(ClassCounts, TopCounts)

InitReport == Start(ReportClassCounts, ReportTopCounts)

Infer == RunInference(Scores)
ReadLabelmap == LoadLabelmap(LabelFiles)
ReadDict == LoadDict(DictFiles)

InferReport == RunInference(ReportScores)
ReadLabelmapReport == LoadLabelmap(ReportLabelFiles)
ReadDictReport == LoadDict(ReportDictFiles)

Next ==
  \/ CheckCheckpoint
  \/ NewGraph
  \/ CheckImage
  \/ ReadImage
  \/ BuildPreprocess
  \/ BuildNetwork
  \/ Restore
  \/ Infer
  \/ ReadLabelmap
  \/ ReadDict
  \/ SelectTopK
  \/ PrintLine
  \/ Return

NextReport ==
  \/ CheckCheckpoint
  \/ NewGraph
  \/ CheckImage
  \/ ReadImage
  \/ BuildPreprocess
  \/ BuildNetwork
  \/ Restore
  \/ InferReport
  \/ ReadLabelmapReport
  \/ ReadDictReport
  \/ SelectTopK
  \/ PrintLine
  \/ Return

Spec == Init /\ [][Next]_vars

SpecReport == InitReport /\ [][NextReport]_vars

\* ------------------------------------------------- vocabulary of the claims
Contains(seq, x) == \E k \in 1..Len(seq) : seq[k] = x

NewlinesUpTo(content, p) == Cardinality({ q \in 1..p : content[q] = NL })

\* The number of lines of a file: one per newline, and one more for text
\* after the last newline.
LineCount(content) ==
  NewlinesUpTo(content, Len(content))
    + (IF content # <<>> /\ content[Len(content)] # NL THEN 1 ELSE 0)

\* The k-th line of a file (k from 1), with its newline when it has one.
NthLine(content, k) ==
  LET first == 1 + Cardinality({ p \in 1..Len(content) : NewlinesUpTo(content, p) < k - 1 })
               + (IF k > 1 THEN 1 ELSE 0)
      last == Cardinality({ p \in 1..Len(content) :
                              NewlinesUpTo(content, p) < k
                              \/ (content[p] = NL /\ NewlinesUpTo(content, p) = k) })
  IN SubSeq(content, first, last)

\* r is s with every trailing character of cs removed.
IsRStripOf(r, s, cs) ==
  \E m \in 0..Len(s) :
    /\ r = SubSeq(s, 1, m)
    /\ \A j \in (m + 1)..Len(s) : s[j] \in cs
    /\ m = 0 \/ s[m] \notin cs

\* r is s with every leading and trailing character of cs removed.
IsStripOf(r, s, cs) ==
  \E a \in 1..(Len(s) + 1), b \in 0..Len(s) :
    /\ r = SubSeq(s, a, b)
    /\ \A j \in 1..(a - 1) : s[j] \in cs
    /\ \A j \in (b + 1)..Len(s) : s[j] \in cs
    /\ a > b \/ (s[a] \notin cs /\ s[b] \notin cs)

HasComma(line) == \E p \in 1..Len(line) : line[p] = CM

\* key (value) is the text of line before (after) its first comma, stripped.
IsKeyOf(key, line) ==
  \E p \in 1..Len(line) :
    /\ line[p] = CM /\ \A j \in 1..(p - 1) : line[j] # CM
    /\ IsStripOf(key, SubSeq(line, 1, p - 1), DictStripChars)

IsValueOf(value, line) ==
  \E p \in 1..Len(line) :
    /\ line[p] = CM /\ \A j \in 1..(p - 1) : line[j] # CM
    /\ IsStripOf(value, SubSeq(line, p + 1, Len(line)), DictStripChars)

PrintedIndices == { printed[k].idx : k \in 1..Len(printed) }

Score(idx) == predictions_eval[idx + 1]

\* ------------------------------------------------------------------ claims

\* C1: the printed lines are in descending score order (each line's score,
\* raw and as printed, is >= the next line's), and no class that is not
\* printed has a score strictly greater than a class that is printed.
C1_PrintedDescending ==
  /\ \A k \in 1..(Len(printed) - 1) :
       /\ printed[k].score >= printed[k + 1].score
       /\ Score(printed[k].idx) >= Score(printed[k + 1].idx)
  /\ pc = "done" =>
       \A c \in 0..(num_classes - 1) : \A k \in 1..Len(printed) :
         c \notin PrintedIndices => ~(Score(c) > Score(printed[k].idx))

C1_Witness ==
  /\ pc = "done"
  /\ num_classes = 3
  /\ Len(printed) = 2
  /\ Score(printed[1].idx) > Score(printed[2].idx)
  /\ \E c \in 0..2 : c \notin PrintedIndices /\ Score(c) < Score(printed[2].idx)

\* C2: when the label map's line count differs from num_classes, the run
\* logs the mismatch and exits with status 1, the dictionary file is not
\* read, and no prediction line is printed.
C2_MismatchIsFatal ==
  (labelmapFile # NoFile /\ LineCount(labelmapFile) # num_classes) =>
    /\ pc = "exited"
    /\ exitStatus = <<1>>
    /\ Contains(log, "labelmap_mismatch")
    /\ dictFile = NoFile
    /\ ~Contains(steps, "load_dict")
    /\ printed = <<>>

C2_Witness ==
  /\ pc = "exited"
  /\ labelmapFile # NoFile
  /\ LineCount(labelmapFile) > num_classes
  /\ Contains(log, "labelmap_mismatch")

\* C3: when the checkpoint path does not exist, the run aborts at the check
\* in main after logging the message, and no later step runs.
C3_AbortsAtCheckpointCheck ==
  (~ckptExists /\ Contains(steps, "check_checkpoint")) =>
    /\ Contains(log, "checkpoint_missing")
    /\ \A s \in {"new_graph", "check_image", "open_image", "build_preprocess",
                 "build_network", "restore", "run", "load_labelmap", "load_dict"} :
         ~Contains(steps, s)

\* C4: when the image path does not exist, the run aborts at the check in
\* PreprocessImage after logging the message: the image file is not opened,
\* no decode/resize op is built, and no inference or report step runs.
C4_AbortsAtImageCheck ==
  (~imageExists /\ Contains(steps, "check_image")) =>
    /\ Contains(log, "image_missing")
    /\ \A s \in {"open_image", "build_preprocess", "build_network", "restore",
                 "run", "load_labelmap", "load_dict", "top_k"} :
         ~Contains(steps, s)
    /\ printed = <<>>

\* C5: every printed line's display name is the dictionary's entry for the
\* line's mid when the mid is a key of the dictionary and "unknown" when it
\* is not, and the report never fails (an absent mid raises nothing).
C5_NameOrUnknown ==
  /\ \A k \in 1..Len(printed) :
       /\ printed[k].mid \in DOMAIN label_dict =>
            printed[k].display_name = label_dict[printed[k].mid]
       /\ printed[k].mid \notin DOMAIN label_dict =>
            printed[k].display_name = Unknown
  /\ Contains(steps, "top_k") => pc \in {"print", "done"}
  /\ pc = "done" => Len(printed) = Len(top_k)

C5_Witness ==
  /\ pc = "done"
  /\ \E k \in 1..Len(printed) :
       printed[k].mid \notin DOMAIN label_dict /\ printed[k].display_name = Unknown
  /\ \E k \in 1..Len(printed) :
       printed[k].mid \in DOMAIN label_dict /\ printed[k].display_name = <<"x", CM, "y">>

\* C6: for every top-N count N with 0 <= N <= num_classes, a successful run
\* prints exactly N prediction lines.
C6_PrintsExactlyN ==
  (pc = "done" /\ 0 <= n /\ n <= num_classes) => Len(printed) = n

\* C8: every printed index is a valid class index, no index is printed
\* twice, the mid is the label-map file's line at that index with trailing
\* whitespace removed, and the score is the score vector's element at that
\* index (rounded to the nearest hundredth).
C8_LineMatchesIndex ==
  \A k \in 1..Len(printed) :
    LET l == printed[k] IN
    /\ l.idx \in 0..(num_classes - 1)
    /\ \A j \in 1..Len(printed) : j # k => printed[j].idx # l.idx
    /\ IsRStripOf(l.mid, NthLine(labelmapFile, l.idx + 1), Whitespace)
    /\ 3 * l.score - 1 <= Score(l.idx) /\ Score(l.idx) <= 3 * l.score + 1

C8_Witness ==
  /\ pc = "done"
  /\ Len(printed) = num_classes
  /\ \E j, k \in 1..Len(printed) :
       /\ printed[j].mid = <<"b">> /\ printed[k].mid = <<"c">>
       /\ printed[j].score # printed[k].score

StepOrder ==
  <<"check_checkpoint", "new_graph", "check_image", "open_image",
    "build_preprocess", "build_network", "restore", "run", "load_labelmap",
    "load_dict", "top_k">>

\* C9: the steps run in the fixed order preprocess, infer, report: the
\* label-map and dictionary files are read only after the restore and the
\* forward pass have completed, a line-count mismatch is detected only
\* after inference has run, and no line is printed before both lookup
\* tables are fully loaded.
C9_FixedOrder ==
  /\ Len(steps) <= Len(StepOrder) /\ steps = SubSeq(StepOrder, 1, Len(steps))
  /\ (labelmapFile # NoFile \/ dictFile # NoFile) =>
       /\ Contains(steps, "restore") /\ Contains(steps, "run")
       /\ Len(predictions_eval) = num_classes
  /\ Contains(log, "labelmap_mismatch") => Len(predictions_eval) = num_classes
  /\ printed # <<>> =>
       /\ labelmapFile # NoFile /\ dictFile # NoFile
       /\ Len(labelmap) = LineCount(labelmapFile)
       /\ \A i \in 1..LineCount(dictFile) :
            \E key \in DOMAIN label_dict : IsKeyOf(key, NthLine(dictFile, i))

C9_Witness ==
  /\ pc = "print"
  /\ Len(printed) = 1
  /\ LineCount(dictFile) = 2
  /\ Len(steps) = Len(StepOrder)

\* C10: the dictionary maps, for every line, the text before the first
\* comma to the whole remainder (each stripped of surrounding spaces,
\* double quotes and newlines); of several lines with one mid the last one
\* is the one used; a line with no comma makes the load fail with an
\* uncaught error.
C10_DictionaryLoad ==
  dictFile # NoFile =>
    LET count == LineCount(dictFile)
        line(i) == NthLine(dictFile, i)
    IN IF \E i \in 1..count : ~HasComma(line(i))
       THEN pc = "crashed" /\ exception = "IndexError" /\ exitStatus = <<1>>
       ELSE /\ pc \in {"top_k", "print", "done"}
            /\ \A key \in DOMAIN label_dict : \E i \in 1..count : IsKeyOf(key, line(i))
            /\ \A i \in 1..count :
                 \E key \in DOMAIN label_dict :
                   /\ IsKeyOf(key, line(i))
                   /\ (\A j \in (i + 1)..count : ~IsKeyOf(key, line(j))) =>
                        IsValueOf(label_dict[key], line(i))

C10_Witness ==
  /\ pc = "top_k"
  /\ dictFile = <<"a", CM, "x", NL, SP, DQ, "a", DQ, CM, DQ, "x", CM, "y", DQ, NL>>
  /\ DOMAIN label_dict = {<<"a">>}
  /\ label_dict[<<"a">>] = <<"x", CM, "y">>

====
